---- MODULE Spec2Model ----
(***************************************************************************)
(* Model of pinterest-rs, src/client.rs: the Scope/Config -> oauth2        *)
(* configuration builder (TokenBuilder::new), the token exchange           *)
(* (TokenBuilder::exchange_code) and the Client holder (Client::default,   *)
(* Client::new).                                                           *)
(*                                                                         *)
(* Strings are sequences of tokens.  A token is either a run of bytes that *)
(* the application/x-www-form-urlencoded serializer leaves alone           *)
(* (alphanumerics and * - . _), such as "mysite.com", or one single byte   *)
(* outside that set, such as ":" or "/".  The serializer works byte by     *)
(* byte, so it acts on a run as the identity and on the other tokens by    *)
(* the table EncodeByte.                                                   *)
(*                                                                         *)
(* The oauth2 crate (1.x: Config::new, add_scope, set_redirect_url,        *)
(* authorize_url, exchange_code) and the url crate are collaborators of    *)
(* client.rs; they are modelled at the places client.rs calls them, as far *)
(* as the calls and the test fixture of client.rs depend on them.          *)
(***************************************************************************)
EXTENDS Naturals, Sequences, FiniteSets, TLC

VARIABLES
    config,      \* the Config last handed to TokenBuilder::new, or NoValue
    builder,     \* the TokenBuilder the caller holds, or NoValue
    lastOp,      \* the operation that ran last
    calls,       \* the codes passed to exchange_code, in call order
    requests,    \* the token requests the OAuth2 layer has observed, in order
    responses,   \* what the OAuth2 layer returned to each exchange_code
    results,     \* what each exchange_code returned to its caller
    clients,     \* every Client constructed so far, with a flag: still alive
    constructed, \* for each constructed Client, the call that made it
    cores,       \* number of execution contexts (tokio Core) created so far
    transports,  \* number of HTTP transports (hyper::Client) created so far
    coreResult,  \* outcome of the last Core::new()
    panicked     \* TRUE once a call has panicked (the thread unwinds)

vars == <<config, builder, lastOp, calls, requests, responses, results,
          clients, constructed, cores, transports, coreResult, panicked>>

authVars   == <<config, builder, calls, requests, responses, results>>
clientVars == <<clients, constructed, cores, transports, coreResult>>

\* ---------------------------------------------------------------- bounds
MaxCalls == 2
MaxClients == 3

\* ---------------------------------------------------------------- values
NoValue == [tag |-> "None"]
Some(v) == [tag |-> "Some", val |-> v]
Ok(v)   == [tag |-> "Ok", val |-> v]
Err(e)  == [tag |-> "Err", err |-> e]

\* const API_BASE, declared and never used by any operation
API_BASE == <<"https", ":", "/", "/", "api.pinterest.com", "/", "v1", "/">>

\* struct Scope: four booleans
ScopeFields == {"read_public", "write_public", "read_relationships", "write_relationships"}
Scopes == [ScopeFields -> BOOLEAN]

\* mutant: a default that grants read_public
ScopeDefaultGrantsRead ==
    [read_public |-> TRUE, write_public |-> FALSE,
     read_relationships |-> FALSE, write_relationships |-> FALSE]

\* impl Default for Scope
ScopeDefault ==
    [read_public |-> FALSE, write_public |-> FALSE,
     read_relationships |-> FALSE, write_relationships |-> FALSE]

\* ------------------------------------------------------- the input strings
ClientIds == { <<"myclientid">>, <<"my", " ", "id">> }
ClientSecrets == { <<"myclientsecret">> }
AuthorizeUrls ==
    { <<"https", ":", "/", "/", "example.com", "/", "authorize">>,
      <<"https", ":", "/", "/", "example.com">>,
      <<"https", ":", "/", "/", "example.com", "/", "authorize", "?", "x", "=", "1">>,
      <<"example.com", "/", "authorize">> }
TokenUrls ==
    { <<"https", ":", "/", "/", "example.com", "/", "token">>,
      << >> }
RedirectUrls ==
    { <<"https", ":", "/", "/", "mysite.com", ":", "8000">>,
      <<"/", "callback", "?", "a", "=", "b", " ", "c">> }

\* struct Config
Configs ==
    [client_id : ClientIds, client_secret : ClientSecrets,
     authorize_url : AuthorizeUrls, token_url : TokenUrls,
     redirect_url : RedirectUrls, scope : Scopes]

\* the authorization codes a caller passes; the empty string is one of them
Codes == { << >>, <<"abc123">> }
\* oauth2::Token and oauth2::TokenError values the OAuth2 layer can return
Tokens == { "tokenA", "tokenB" }
TokenErrors == { "invalid_grant", "network" }
Responses == { Ok(t) : t \in Tokens } \cup { Err(e) : e \in TokenErrors }
\* what Core::new() can return: the event loop, or the io::Error of the OS
CoreResults == { Ok("core"), Err("io_error") }

\* ------------------------------------------------------------ the url crate
Schemes == {"https", "http"}
Delimiters == {":", "/", "?", "=", "&", " ", "+", "%"}

\* index of the last token of scheme://host[:port]
AuthorityEnd(s) == IF Len(s) >= 7 /\ s[6] = ":" THEN 7 ELSE 5

\* Url::parse(s) is Ok: s is an absolute URL (else RelativeUrlWithoutBase)
UrlParses(s) ==
    /\ Len(s) >= 5
    /\ s[1] \in Schemes
    /\ s[2] = ":" /\ s[3] = "/" /\ s[4] = "/"
    /\ s[5] \notin Delimiters

\* Url::parse(s).unwrap(), serialised: an empty path becomes "/"
UrlParse(s) ==
    LET e == AuthorityEnd(s)
    IN  IF Len(s) = e \/ s[e + 1] = "?"
        THEN SubSeq(s, 1, e) \o <<"/">> \o SubSeq(s, e + 1, Len(s))
        ELSE s

\* form_urlencoded::byte_serialize on one token
EncodeByte(t) ==
    CASE t = " " -> "+"
      [] t = ":" -> "%3A"
      [] t = "/" -> "%2F"
      [] t = "?" -> "%3F"
      [] t = "=" -> "%3D"
      [] t = "&" -> "%26"
      [] t = "+" -> "%2B"
      [] t = "%" -> "%25"
      [] OTHER   -> t

ByteSerialize(s) == [i \in 1..Len(s) |-> EncodeByte(s[i])]

\* Url::query_pairs_mut().extend_pairs(pairs): "?" starts the query when the
\* URL has none, "&" separates the pairs from each other and from a query
\* that is already there
RECURSIVE ExtendPairs(_, _)
ExtendPairs(url, pairs) ==
    IF pairs = << >> THEN url
    ELSE LET sep == IF \E i \in 1..Len(url) : url[i] = "?" THEN "&" ELSE "?"
             p   == Head(pairs)
         IN  ExtendPairs(url \o <<sep>> \o ByteSerialize(p[1]) \o <<"=">>
                             \o ByteSerialize(p[2]),
                         Tail(pairs))

\* [String]::join(" ")
RECURSIVE JoinSpace(_)
JoinSpace(names) ==
    IF names = << >> THEN << >>
    ELSE IF Len(names) = 1 THEN <<names[1]>>
    ELSE <<names[1], " ">> \o JoinSpace(Tail(names))

\* --------------------------------------------------------- the oauth2 crate
\* oauth2::Config::new: both URLs are parsed and unwrapped
OAuthConfigNewPanics(auth_url, token_url) ==
    ~(UrlParses(auth_url) /\ UrlParses(token_url))

OAuthConfigNew(client_id, client_secret, auth_url, token_url) ==
    [client_id |-> client_id, client_secret |-> client_secret,
     auth_url |-> UrlParse(auth_url), token_url |-> UrlParse(token_url),
     scopes |-> << >>, response_type |-> "code",
     redirect_url |-> NoValue, state |-> NoValue]

\* oauth2::Config::add_scope
AddScope(c, name) == [c EXCEPT !.scopes = Append(@, name)]

\* oauth2::Config::set_redirect_url: the string is stored as given
SetRedirectUrl(c, url) == [c EXCEPT !.redirect_url = Some(url)]

\* oauth2::Config::authorize_url
AuthorizeUrl(c) ==
    LET pairs == << <<<<"client_id">>, c.client_id>>,
                    <<<<"scope">>, JoinSpace(c.scopes)>>,
                    <<<<"response_type">>, <<c.response_type>>>> >>
                 \o (IF c.redirect_url.tag = "Some"
                     THEN << <<<<"redirect_uri">>, c.redirect_url.val>> >>
                     ELSE << >>)
                 \o (IF c.state.tag = "Some"
                     THEN << <<<<"state">>, c.state.val>> >>
                     ELSE << >>)
    IN  ExtendPairs(c.auth_url, pairs)

\* the text of a token sequence
RECURSIVE Text(_)
Text(s) == IF s = << >> THEN "" ELSE Head(s) \o Text(Tail(s))

\* ------------------------------------------------------ client.rs: builder
\* mutant: the ifs in the order the struct declares the flags
AddScopesDeclarationOrder(c, scope) ==
    LET c1 == IF scope.read_public THEN AddScope(c, "read_public") ELSE c
        c2 == IF scope.write_public THEN AddScope(c1, "write_public") ELSE c1
        c3 == IF scope.read_relationships
              THEN AddScope(c2, "read_relationships") ELSE c2
        c4 == IF scope.write_relationships
              THEN AddScope(c3, "write_relationships") ELSE c3
    IN  c4

\* the four ifs of TokenBuilder::new, in the order they are written
AddScopes(c, scope) ==
    LET c1 == IF scope.read_public THEN AddScope(c, "read_public") ELSE c
        c2 == IF scope.read_relationships
              THEN AddScope(c1, "read_relationships") ELSE c1
        c3 == IF scope.write_public THEN AddScope(c2, "write_public") ELSE c2
        c4 == IF scope.write_relationships
              THEN AddScope(c3, "write_relationships") ELSE c3
    IN  c4

\* mutant: the redirect URL is parsed and unwrapped as well
TokenBuilderNewParsesRedirect(cfg) ==
    \/ OAuthConfigNewPanics(cfg.authorize_url, cfg.token_url)
    \/ ~UrlParses(cfg.redirect_url)

\* TokenBuilder::new panics where a call it makes panics; it has no other exit
TokenBuilderNewPanics(cfg) ==
    OAuthConfigNewPanics(cfg.authorize_url, cfg.token_url)

\* mutant: set_redirect_url is left out
TokenBuilderNewNoRedirect(cfg) ==
    LET c0 == OAuthConfigNew(cfg.client_id, cfg.client_secret,
                             cfg.authorize_url, cfg.token_url)
    IN  [config |-> AddScopes(c0, cfg.scope)]

\* TokenBuilder::new, when it returns
TokenBuilderNew(cfg) ==
    LET c0 == OAuthConfigNew(cfg.client_id, cfg.client_secret,
                             cfg.authorize_url, cfg.token_url)
        c1 == AddScopes(c0, cfg.scope)
        c2 == SetRedirectUrl(c1, cfg.redirect_url)
    IN  [config |-> c2]

\* mutant: the underlying error is replaced, not wrapped
FromLosesError(e) == [variant |-> "Token", inner |-> "invalid_grant"]

\* impl From<oauth2::TokenError> for PinterestError
From(e) == [variant |-> "Token", inner |-> e]

\* `let token = self.config.exchange_code(code)?; Ok(token)`
ExchangeCodeResult(r) ==
    IF r.tag = "Ok" THEN Ok(r.val) ELSE Err(From(r.err))

\* mutant: a failed exchange is tried a second time
ExchangeRequestsRetry(b, code, r) ==
    LET req == [code |-> code, token_url |-> b.config.token_url,
                client_id |-> b.config.client_id]
    IN  IF r.tag = "Err" THEN <<req, req>> ELSE <<req>>

\* the requests one exchange_code call hands to the OAuth2 layer
ExchangeRequests(b, code, r) ==
    << [code |-> code, token_url |-> b.config.token_url,
        client_id |-> b.config.client_id] >>

\* mutant: the code is remembered as the configuration's state parameter
BuilderRemembersCode(b, code) == [config |-> [b.config EXCEPT !.state = Some(code)]]

\* exchange_code borrows the builder immutably (&self)
BuilderAfterExchange(b, code) == b

\* ------------------------------------------------------- client.rs: client
\* mutant: the error of Core::new() is swallowed
UnwrapNeverPanics(r) == FALSE

\* Core::new().unwrap()
UnwrapPanics(r) == r.tag = "Err"

\* mutant: the transport is bound to one process-wide event loop
ClientDefaultSharedCore(core, transport) ==
    [token |-> NoValue,
     hyper |-> [id |-> transport, handle |-> 1],
     core  |-> core]

\* impl Default for Client, with core the new Core and transport the new
\* hyper::Client
ClientDefault(core, transport) ==
    [token |-> NoValue,
     hyper |-> [id |-> transport, handle |-> core],
     core  |-> core]

\* mutant: the token of the default client is kept
ClientNewKeepsDefaultToken(token, d) ==
    [token |-> d.token, hyper |-> d.hyper, core |-> d.core]

\* Client::new: Client { token: Some(token), .. d } with d = Client::default()
ClientNew(token, d) ==
    [token |-> Some(token), hyper |-> d.hyper, core |-> d.core]

\* ------------------------------------------------------------------ states
Init ==
    /\ config = NoValue
    /\ builder = NoValue
    /\ lastOp = "init"
    /\ calls = << >>
    /\ requests = << >>
    /\ responses = << >>
    /\ results = << >>
    /\ clients = << >>
    /\ constructed = << >>
    /\ cores = 0
    /\ transports = 0
    /\ coreResult = NoValue
    /\ panicked = FALSE

\* TokenBuilder::new(cfg).  The model follows one TokenBuilder from its
\* construction on: a Config is consumed by the call, and another
\* TokenBuilder would share nothing with this one.
NewTokenBuilder(cfg) ==
    /\ ~panicked
    /\ config = NoValue
    /\ config' = cfg
    /\ lastOp' = "TokenBuilder::new"
    /\ IF TokenBuilderNewPanics(cfg)
       THEN /\ panicked' = TRUE
            /\ builder' = NoValue
       ELSE /\ panicked' = FALSE
            /\ builder' = Some(TokenBuilderNew(cfg))
    /\ UNCHANGED <<calls, requests, responses, results>>
    /\ UNCHANGED clientVars

\* builder.exchange_code(code); r is the answer of the OAuth2 layer
ExchangeCode(code, r) ==
    /\ ~panicked
    /\ builder.tag = "Some"
    /\ Len(calls) < MaxCalls
    /\ lastOp' = "exchange_code"
    /\ calls' = Append(calls, code)
    /\ requests' = requests \o ExchangeRequests(builder.val, code, r)
    /\ responses' = Append(responses, r)
    /\ results' = Append(results, ExchangeCodeResult(r))
    /\ builder' = Some(BuilderAfterExchange(builder.val, code))
    /\ UNCHANGED <<config, panicked>>
    /\ UNCHANGED clientVars

\* Client::default(); r is what Core::new() returns
ClientDefaultCall(r) ==
    /\ ~panicked
    /\ Len(clients) < MaxClients
    /\ lastOp' = "Client::default"
    /\ coreResult' = r
    /\ IF UnwrapPanics(r)
       THEN /\ panicked' = TRUE
            /\ UNCHANGED <<clients, constructed, cores, transports>>
       ELSE /\ panicked' = FALSE
            /\ cores' = cores + 1
            /\ transports' = transports + 1
            /\ clients' = Append(clients,
                   [live |-> TRUE, value |-> ClientDefault(cores', transports')])
            /\ constructed' = Append(constructed,
                   [op |-> "Client::default", token |-> NoValue])
    /\ UNCHANGED authVars

\* Client::new(t); r is what Core::new() returns inside Client::default()
ClientNewCall(t, r) ==
    /\ ~panicked
    /\ Len(clients) < MaxClients
    /\ lastOp' = "Client::new"
    /\ coreResult' = r
    /\ IF UnwrapPanics(r)
       THEN /\ panicked' = TRUE
            /\ UNCHANGED <<clients, constructed, cores, transports>>
       ELSE /\ panicked' = FALSE
            /\ cores' = cores + 1
            /\ transports' = transports + 1
            /\ clients' = Append(clients,
                   [live |-> TRUE,
                    value |-> ClientNew(t, ClientDefault(cores', transports'))])
            /\ constructed' = Append(constructed,
                   [op |-> "Client::new", token |-> Some(t)])
    /\ UNCHANGED authVars

\* the owner of clients[i] drops it: its transport and its Core go with it
DropClient(i) ==
    /\ ~panicked
    /\ clients[i].live
    /\ lastOp' = "drop"
    /\ clients' = [clients EXCEPT ![i].live = FALSE]
    /\ UNCHANGED <<constructed, cores, transports, coreResult, panicked>>
    /\ UNCHANGED authVars

NewTokenBuilderStep == \E cfg \in Configs : NewTokenBuilder(cfg)
ExchangeCodeStep == \E code \in Codes, r \in Responses : ExchangeCode(code, r)
ClientDefaultStep == \E r \in CoreResults : ClientDefaultCall(r)
ClientNewStep == \E t \in Tokens, r \in CoreResults : ClientNewCall(t, r)
DropClientStep == \E i \in DOMAIN clients : DropClient(i)

\* TokenBuilder and Client share no state (neither holds a reference to the
\* other), so each is a specification of its own.
\* the authorization flow: TokenBuilder
AuthNext == NewTokenBuilderStep \/ ExchangeCodeStep
AuthSpec == Init /\ [][AuthNext]_vars

\* the session holder: Client
ClientNext == ClientDefaultStep \/ ClientNewStep \/ DropClientStep
ClientSpec == Init /\ [][ClientNext]_vars


\* ================================================================= claims
\* ---------------------------------------------- reading a URL back (checks)
HasToken(s, t) == \E i \in 1..Len(s) : s[i] = t
FirstIndex(s, t) == CHOOSE i \in 1..Len(s) : s[i] = t /\ \A j \in 1..(i - 1) : s[j] # t

RECURSIVE SplitOn(_, _)
SplitOn(s, t) ==
    IF ~HasToken(s, t) THEN <<s>>
    ELSE LET i == FirstIndex(s, t)
         IN  <<SubSeq(s, 1, i - 1)>> \o SplitOn(SubSeq(s, i + 1, Len(s)), t)

\* application/x-www-form-urlencoded decoding of one token
DecodeByte(t) ==
    CASE t = "+"   -> " "
      [] t = "%3A" -> ":"
      [] t = "%2F" -> "/"
      [] t = "%3F" -> "?"
      [] t = "%3D" -> "="
      [] t = "%26" -> "&"
      [] t = "%2B" -> "+"
      [] t = "%25" -> "%"
      [] OTHER     -> t
FormDecode(s) == [i \in 1..Len(s) |-> DecodeByte(s[i])]

\* no byte that percent-encoding has to remove is left in s
IsEncoded(s) == \A i \in 1..Len(s) : s[i] \notin {":", "/", "?", "=", "&", " ", "%"}

\* the part of a URL before its query, and its query parameters in order
UrlBase(url) == SubSeq(url, 1, FirstIndex(url, "?") - 1)
UrlParams(url) ==
    LET q  == FirstIndex(url, "?")
        ps == SplitOn(SubSeq(url, q + 1, Len(url)), "&")
    IN  [i \in 1..Len(ps) |->
            LET kv == SplitOn(ps[i], "=")
            IN  [key |-> kv[1], raw |-> kv[2], n |-> Len(kv)]]

\* the order in which the scope names are expected
ResolverOrder ==
    <<"read_public", "read_relationships", "write_public", "write_relationships">>
Rank(name) == CHOOSE i \in 1..Len(ResolverOrder) : ResolverOrder[i] = name

RECURSIVE JoinPlus(_)
JoinPlus(names) ==
    IF names = << >> THEN << >>
    ELSE IF Len(names) = 1 THEN <<names[1]>>
    ELSE <<names[1], "+">> \o JoinPlus(Tail(names))

ExpectedScopes(scope) ==
    LET Wanted(n) == scope[n] IN SelectSeq(ResolverOrder, Wanted)

\* the Config of tests::create_authentication_url
TestConfig ==
    [client_id |-> <<"myclientid">>,
     client_secret |-> <<"myclientsecret">>,
     authorize_url |-> <<"https", ":", "/", "/", "example.com", "/", "authorize">>,
     token_url |-> <<"https", ":", "/", "/", "example.com", "/", "token">>,
     redirect_url |-> <<"https", ":", "/", "/", "mysite.com", ":", "8000">>,
     scope |-> [ScopeDefault EXCEPT !.read_public = TRUE, !.read_relationships = TRUE]]

Built == builder.tag = "Some"

\* C1: the scope list TokenBuilder::new adds holds exactly the names of the
\* true flags: as many entries as true flags, every entry the name of a true
\* flag, no name twice, and the entries in the order read_public,
\* read_relationships, write_public, write_relationships.
C1_ScopeList ==
    Built =>
        LET s == builder.val.config.scopes
            f == config.scope
        IN  /\ Len(s) = Cardinality({n \in ScopeFields : f[n]})
            /\ \A i \in 1..Len(s) : s[i] \in ScopeFields /\ f[s[i]]
            /\ \A i, j \in 1..Len(s) : i < j => Rank(s[i]) < Rank(s[j])

\* a builder made with write_public and read_relationships both granted:
\* read_relationships comes first, against the struct's declaration order
C1_Witness ==
    /\ Built
    /\ config.scope = [ScopeDefault EXCEPT !.write_public = TRUE,
                                           !.read_relationships = TRUE]
    /\ builder.val.config.scopes = <<"read_relationships", "write_public">>

\* the shape C2 gives the authorization URL of a Config
UrlShape(cfg, url) ==
    /\ HasToken(url, "?")
    /\ UrlBase(url) = cfg.authorize_url
    /\ LET ps == UrlParams(url)
       IN  /\ Len(ps) = 4
           /\ \A i \in 1..Len(ps) : ps[i].n = 2
           /\ [i \in 1..Len(ps) |-> ps[i].key]
                = << <<"client_id">>, <<"scope">>, <<"response_type">>, <<"redirect_uri">> >>
           /\ IsEncoded(ps[1].raw) /\ FormDecode(ps[1].raw) = cfg.client_id
           /\ ps[2].raw = JoinPlus(ExpectedScopes(cfg.scope))
           /\ ps[3].raw = <<"code">>
           /\ IsEncoded(ps[4].raw) /\ FormDecode(ps[4].raw) = cfg.redirect_url
    /\ cfg = TestConfig =>
         Text(url) = "https://example.com/authorize?client_id=myclientid&scope=read_public+read_relationships&response_type=code&redirect_uri=https%3A%2F%2Fmysite.com%3A8000"

\* an absolute URL that Url::parse gives back as written, without a query
IsSerialisedWithoutQuery(s) ==
    /\ Len(s) >= 7
    /\ SubSeq(s, 2, 4) = <<":", "/", "/">>
    /\ s[6] = "/"
    /\ ~HasToken(s, "?")

C3_ExchangeMapsOutcome ==
    /\ Len(results) = Len(responses)
    /\ Len(results) = Len(calls)
    /\ \A i \in 1..Len(results) :
          /\ responses[i].tag = "Ok" =>
                results[i] = [tag |-> "Ok", val |-> responses[i].val]
          /\ responses[i].tag = "Err" =>
                /\ results[i].tag = "Err"
                /\ results[i].err.variant = "Token"
                /\ results[i].err.inner = responses[i].err
    /\ lastOp = "exchange_code" => ~panicked

\* an exchange of the empty code that failed with the second error, after one
\* that succeeded
C3_Witness ==
    /\ Len(calls) = 2
    /\ calls[2] = << >>
    /\ responses[1].tag = "Ok"
    /\ responses[2] = [tag |-> "Err", err |-> "network"]
    /\ results[2].tag = "Err"

\* C5: a Config whose Scope is Scope::default() (all flags false) adds no
\* scope name; the URL has a scope parameter with an empty value, no scope
\* name anywhere, and still client_id, response_type=code and redirect_uri.
C5_EmptyScope ==
    (Built /\ config.scope = ScopeDefault) =>
        LET url == AuthorizeUrl(builder.val.config)
            ps  == UrlParams(url)
            Values(k) == {ps[i].raw : i \in {j \in 1..Len(ps) : ps[j].key = <<k>>}}
        IN  /\ \A n \in ScopeFields : ~config.scope[n]
            /\ builder.val.config.scopes = << >>
            /\ Values("scope") = { << >> }
            /\ \A i \in 1..Len(url) : url[i] \notin ScopeFields
            /\ Cardinality(Values("client_id")) = 1
            /\ Values("response_type") = { <<"code">> }
            /\ Cardinality(Values("redirect_uri")) = 1

C5_Witness ==
    /\ Built
    /\ config.scope = ScopeDefault
    /\ HasToken(AuthorizeUrl(builder.val.config), "scope")

\* TokenBuilder::new can complete on cfg: both URLs of the OAuth2 endpoints
\* are absolute
EndpointsAbsolute(cfg) ==
    \A u \in {cfg.authorize_url, cfg.token_url} :
        \E sch \in Schemes :
            /\ Len(u) >= 5
            /\ SubSeq(u, 1, 4) = <<sch, ":", "/", "/">>
            /\ u[5] \notin Delimiters

C8_OneRequestPerCall ==
    /\ Len(requests) = Len(calls)
    /\ \A i \in 1..Len(requests) : requests[i].code = calls[i]

\* two calls with different codes, the first of which failed
C8_Witness ==
    /\ Len(calls) = 2
    /\ calls[1] # calls[2]
    /\ responses[1].tag = "Err"
    /\ Len(requests) = 2

\* C9: no step changes the resolved configuration of the TokenBuilder, so
\* the authorization URL read back from it stays the same.
C9_BuilderImmutable ==
    [][(builder.tag = "Some" /\ builder'.tag = "Some") =>
           /\ builder'.val.config = builder.val.config
           /\ AuthorizeUrl(builder'.val.config) = AuthorizeUrl(builder.val.config)]_vars

\* a builder that has been through a failed and a successful exchange
C9_Witness ==
    /\ Built
    /\ Len(calls) = 2
    /\ responses[1].tag = "Err"
    /\ responses[2].tag = "Ok"

IsClientCall == lastOp \in {"Client::default", "Client::new"}

\* C4: a client made by Client::default() has no token; a client made by
\* Client::new(t) holds Some(t) and is otherwise a fresh default client: its
\* own new Core, and a new transport bound to that Core.
C4_ClientConstruction ==
    /\ Len(constructed) = Len(clients)
    /\ \A i \in 1..Len(clients) :
          LET c == clients[i].value
              k == constructed[i]
          IN  /\ k.op = "Client::default" => c.token = [tag |-> "None"]
              /\ k.op = "Client::new" =>
                    /\ c.token = [tag |-> "Some", val |-> k.token.val]
                    /\ c.core = i
                    /\ c.hyper = [id |-> i, handle |-> i]

\* a default client and, after it, a client made with tokenB
C4_Witness ==
    /\ Len(clients) = 2
    /\ constructed[1].op = "Client::default"
    /\ clients[1].value.token.tag = "None"
    /\ constructed[2].op = "Client::new"
    /\ clients[2].value.token = [tag |-> "Some", val |-> "tokenB"]

\* C7 as stated: Client::default() and Client::new(token) always complete
\* and return a Client, also when creating the event loop fails.
C7_Original ==
    IsClientCall =>
        /\ ~panicked
        /\ clients # << >>
        /\ constructed[Len(constructed)].op = lastOp

\* C7 amended: Client::default() and Client::new(token) have no error
\* return; they return a Client when the event loop is created and panic
\* when its creation fails.
C7_ClientPanicsOnlyWithoutCore ==
    IsClientCall =>
        /\ panicked <=> coreResult.tag = "Err"
        /\ ~panicked =>
              /\ clients # << >>
              /\ constructed[Len(constructed)].op = lastOp

\* Client::new after a Core::new() that failed
C7_Witness ==
    /\ lastOp = "Client::new"
    /\ coreResult.tag = "Err"
    /\ panicked

\* C10: every client has one Core and one transport, the transport bound to
\* its own Core; no two clients share either; every construction created
\* exactly one Core and one transport.
C10_ClientOwnsCore ==
    /\ cores = Len(clients)
    /\ transports = Len(clients)
    /\ \A i \in 1..Len(clients) :
          /\ clients[i].value.core \in 1..cores
          /\ clients[i].value.hyper.handle = clients[i].value.core
    /\ \A i, j \in 1..Len(clients) :
          (i # j /\ clients[i].live /\ clients[j].live) =>
              /\ clients[i].value.core # clients[j].value.core
              /\ clients[i].value.hyper.id # clients[j].value.hyper.id
              /\ clients[i].value.hyper.handle # clients[j].value.hyper.handle

\* three clients, made by both constructors, two of them still alive
C10_Witness ==
    /\ Len(clients) = 3
    /\ clients[2].live /\ clients[3].live /\ ~clients[1].live
    /\ constructed[2].op # constructed[3].op

====
